---------------------------- MODULE Spec2Model ----------------------------
(***************************************************************************)
(* DPlugin: a polyphonic pulse-wave synthesiser (JUCE AudioProcessor).     *)
(*                                                                         *)
(* Numbers.  The program computes in float; the model computes in fixed    *)
(* point with FP units per 1.0 (one unit is 0.001, the resolution of       *)
(* minNorm, of the pulse-width and filter parameter steps and of the       *)
(* 1.0e-3 coefficient threshold).  Frequencies and sample rates are whole  *)
(* Hz, gain is whole dB, velocity is in FP units.                          *)
(*                                                                         *)
(* Library.  juce::Synthesiser, juce::SynthesiserVoice, juce::IIRFilter,   *)
(* juce::MidiKeyboardState and juce::AudioProcessorValueTreeState are      *)
(* modelled by their documented behaviour at the places the program calls  *)
(* them.                                                                   *)
(***************************************************************************)
EXTENDS Integers, Sequences, FiniteSets, TLC

\* Fixed-point denominator: one unit is 0.001.
FP == 1000

Mul(a, b) == (a * b) \div FP

Abs(x) == IF x < 0 THEN -x ELSE x

\* juce::jlimit (lo, hi, x)
jlimit(lo, hi, x) == IF x < lo THEN lo ELSE IF hi < x THEN hi ELSE x

\* juce::jmax (a, b)
jmax(a, b) == IF a < b THEN b ELSE a

\* std::sin (twoPi * x), x in turns (FP units).  Bhaskara's rational
\* approximation of the half wave, 16 y (1 - y) / (5 - 4 y (1 - y)).
HalfWave(t) == (16 * (t * (FP \div 2 - t)) * FP) \div (5 * (FP \div 2) * (FP \div 2) - 4 * (t * (FP \div 2 - t)))

SinTwoPi(x) ==
    LET t == x % FP
    IN  IF t < FP \div 2 THEN HalfWave(t) ELSE -HalfWave(t - FP \div 2)

(***************************************************************************)
(* AntiAliasedSawOscillator                                                *)
(***************************************************************************)
hfCompA0 == 2500
hfCompA1 == -1500
minNorm == 1

\* A default-constructed AntiAliasedSawOscillator.
SawInit == [phase |-> 0, osc |-> 0, previousInput |-> 0, w |-> 0, beta |-> 0]

\* A setFrequency that stores the normalised frequency without the jlimit.
SawSetFrequencyUnclamped(s, newFrequency, newSampleRate) ==
    IF newSampleRate <= 0
    THEN s
    ELSE LET w    == (newFrequency * FP) \div newSampleRate
             diff == FP \div 2 - w
         IN  [s EXCEPT !.w = w, !.beta = Mul(Mul(Mul(13 * diff, diff), diff), diff)]

\* AntiAliasedSawOscillator::setFrequency: nothing changes when the sample
\* rate is not positive; w is clamped to [0, 0.49].
SawSetFrequency(s, newFrequency, newSampleRate) ==
    IF newSampleRate <= 0
    THEN s
    ELSE LET normalised == (newFrequency * FP) \div newSampleRate
             w    == jlimit(0, 490, normalised)
             diff == FP \div 2 - w
         IN  [s EXCEPT !.w = w, !.beta = Mul(Mul(Mul(13 * diff, diff), diff), diff)]

\* The body shared by the leading core's getNextSample and the trailing
\* core's inlined copy: one sample computed at phase p, then the phase
\* advanced from p.  Returns the core after the sample and the sample.
SawStep(s, p) ==
    LET feedbackPhase == p + Mul(s.osc, s.beta)
        input    == SinTwoPi(feedbackPhase)
        osc      == (s.osc + input) \div 2
        filtered == Mul(hfCompA0, osc) + Mul(hfCompA1, s.previousInput)
        dc       == 376 - Mul(752, s.w)
        norm     == jmax(minNorm, FP - 2 * s.w)
        sample   == ((filtered - dc) * FP) \div norm
        advanced == p + s.w
    IN  [core |-> [s EXCEPT !.osc = osc, !.previousInput = osc,
                            !.phase = IF advanced >= FP THEN advanced - FP ELSE advanced],
         sample |-> sample]

SawGetNextSample(s) == SawStep(s, s.phase)

\* A reset() that clears the phase alone.
SawResetPhaseOnly(s) == [s EXCEPT !.phase = 0]

\* AntiAliasedSawOscillator::reset: w and beta are left as they are.
SawReset(s) == [s EXCEPT !.phase = 0, !.osc = 0, !.previousInput = 0]

(***************************************************************************)
(* AntiAliasedPulseOscillator                                              *)
(***************************************************************************)
PulseInit == [leadingEdge |-> SawInit, trailingEdge |-> SawInit, pulseWidth |-> FP \div 2]

\* A setFrequency that tunes the leading core only.
PulseSetFrequencyLeadingOnly(o, newFrequency, newSampleRate) ==
    [o EXCEPT !.leadingEdge = SawSetFrequency(o.leadingEdge, newFrequency, newSampleRate)]

\* AntiAliasedPulseOscillator::setFrequency: both cores get the same call.
PulseSetFrequency(o, newFrequency, newSampleRate) ==
    [o EXCEPT !.leadingEdge  = SawSetFrequency(o.leadingEdge, newFrequency, newSampleRate),
              !.trailingEdge = SawSetFrequency(o.trailingEdge, newFrequency, newSampleRate)]

PulseSetPulseWidth(o, newPulseWidth) ==
    [o EXCEPT !.pulseWidth = jlimit(10, 990, newPulseWidth)]

\* while (shiftedPhase >= 1.0f) shiftedPhase -= 1.0f;
RECURSIVE WrapDown(_)
WrapDown(p) == IF p >= FP THEN WrapDown(p - FP) ELSE p

\* A getNextSample whose trailing core runs from its own stored phase.
PulseGetNextSampleFreeRunning(o) ==
    LET lead  == SawGetNextSample(o.leadingEdge)
        trail == SawGetNextSample(o.trailingEdge)
    IN  [osc |-> [o EXCEPT !.leadingEdge = lead.core, !.trailingEdge = trail.core],
         sample |-> jlimit(-FP, FP, lead.sample - trail.sample)]

\* AntiAliasedPulseOscillator::getNextSample: the trailing core's sample is
\* computed at the leading core's advanced phase shifted by pulseWidth.
PulseGetNextSample(o) ==
    LET lead         == SawGetNextSample(o.leadingEdge)
        shiftedPhase == WrapDown(lead.core.phase + o.pulseWidth)
        trail        == SawStep(o.trailingEdge, shiftedPhase)
    IN  [osc |-> [o EXCEPT !.leadingEdge = lead.core, !.trailingEdge = trail.core],
         sample |-> jlimit(-FP, FP, lead.sample - trail.sample)]

PulseReset(o) ==
    [o EXCEPT !.leadingEdge = SawReset(o.leadingEdge),
              !.trailingEdge = SawReset(o.trailingEdge)]

(***************************************************************************)
(* juce::IIRFilter lowPassFilter, juce::IIRCoefficients::makeLowPass       *)
(***************************************************************************)
\* The five normalised coefficients of makeLowPass (sampleRate, cutoff):
\* n = 1 / tan (pi * cutoff / sampleRate), Q = 1 / sqrt 2.
MakeLowPass(sampleRate, cutoff) ==
    LET half == ((cutoff * FP) \div sampleRate) \div 2
        sinv == jmax(1, SinTwoPi(half))
        cosv == SinTwoPi(half + FP \div 4)
        n    == (cosv * FP) \div sinv
        nSq  == Mul(n, n)
        c1   == (FP * FP) \div (FP + Mul(1414, n) + nSq)
    IN  << c1, 2 * c1, c1, Mul(2 * c1, FP - nSq), Mul(c1, FP - Mul(1414, n) + nSq) >>

\* A default-constructed juce::IIRFilter: all coefficients zero.
FilterInit == [coefficients |-> [sampleRate |-> 0, control |-> 0, c |-> <<0, 0, 0, 0, 0>>],
               v1 |-> 0, v2 |-> 0]

\* juce::IIRFilter::processSingleSampleRaw
ProcessSingleSampleRaw(f, in) ==
    LET c   == f.coefficients.c
        out == Mul(c[1], in) + f.v1
    IN  [filter |-> [f EXCEPT !.v1 = Mul(c[2], in) - Mul(c[4], out) + f.v2,
                              !.v2 = Mul(c[3], in) - Mul(c[5], out)],
         out |-> out]

(***************************************************************************)
(* AntiAliasedVoice (with the juce::SynthesiserVoice base it extends)      *)
(***************************************************************************)
\* juce::MidiMessage::getMidiNoteInHertz: 440 * 2 ^ ((note - 69) / 12), in
\* whole Hz.  SemitoneRatio[k] is 2 ^ ((k - 1) / 12) in FP units.
SemitoneRatio == << 1000, 1059, 1122, 1189, 1260, 1335, 1414, 1498, 1587, 1682, 1782, 1888 >>

RECURSIVE Pow2(_)
Pow2(k) == IF k <= 0 THEN 1 ELSE 2 * Pow2(k - 1)

MidiNoteInHertz(note) ==
    LET d    == note - 69
        oct  == d \div 12
        semi == d % 12
        base == 440 * SemitoneRatio[semi + 1]
    IN  IF oct >= 0 THEN (base * Pow2(oct)) \div FP ELSE base \div (FP * Pow2(-oct))

\* juce::Decibels::decibelsToGain: 10 ^ (dB / 20) above -100 dB, else 0.
\* TwentiethRoot[k] is 10 ^ (-(k - 1) / 20) in FP units.
TwentiethRoot == << 1000, 891, 794, 708, 631, 562, 501, 447, 398, 355,
                    316, 282, 251, 224, 200, 178, 158, 141, 126, 112 >>

RECURSIVE Pow10(_)
Pow10(k) == IF k <= 0 THEN 1 ELSE 10 * Pow10(k - 1)

DecibelsToGain(dB) ==
    IF dB > -100
    THEN IF dB <= 0
         THEN TwentiethRoot[((-dB) % 20) + 1] \div Pow10((-dB) \div 20)
         ELSE (FP * FP * Pow10(dB \div 20)) \div TwentiethRoot[(dB % 20) + 1]
    ELSE 0

\* A constructed voice: the SynthesiserVoice fields (currentlyPlayingNote,
\* currentPlayingMidiChannel, noteOnTime, keyIsDown, sustainPedalDown,
\* sostenutoPedalDown) and the AntiAliasedVoice members.
VoiceInit ==
    [currentlyPlayingNote |-> -1, currentPlayingMidiChannel |-> 0, noteOnTime |-> 0,
     keyIsDown |-> FALSE, sustainPedalDown |-> FALSE, sostenutoPedalDown |-> FALSE,
     pulseOsc |-> PulseInit, currentLevel |-> 0, currentFrequency |-> 0,
     isActive |-> FALSE, lowPassFilter |-> FilterInit,
     currentSampleRate |-> 44100, lastFilterCutoff |-> -FP]

\* juce::SynthesiserVoice::isVoiceActive
IsVoiceActive(v) == v.currentlyPlayingNote >= 0

\* juce::SynthesiserVoice::clearCurrentNote
ClearCurrentNote(v) == [v EXCEPT !.currentlyPlayingNote = -1, !.currentPlayingMidiChannel = 0]

\* updateFilterCoefficients with the filter control read as smoothingAmount.
UpdateFilterCoefficients(v, smoothingAmount) ==
    IF v.currentSampleRate <= 0
    THEN v
    ELSE LET maxCutoff == (v.currentSampleRate * 45) \div 100
             minCutoff == 200
             cutoff    == maxCutoff + (smoothingAmount * (minCutoff - maxCutoff)) \div FP
         IN  [v EXCEPT !.lowPassFilter.coefficients =
                          [sampleRate |-> v.currentSampleRate, control |-> smoothingAmount,
                           c |-> MakeLowPass(v.currentSampleRate, cutoff)]]

\* A startNote whose early return leaves the current note in place.
StartNoteKeepsNote(v, midiNoteNumber, velocity, sampleRate, pulseWidthLoad, filterCutoffLoad) ==
    IF sampleRate <= 0
    THEN v
    ELSE LET f  == MidiNoteInHertz(midiNoteNumber)
             v1 == [v EXCEPT !.currentLevel = velocity,
                             !.currentFrequency = f,
                             !.pulseOsc = PulseSetFrequency(
                                              PulseSetPulseWidth(PulseReset(v.pulseOsc), pulseWidthLoad),
                                              f, sampleRate),
                             !.currentSampleRate = sampleRate]
             v2 == UpdateFilterCoefficients(v1, filterCutoffLoad)
         IN  [v2 EXCEPT !.lowPassFilter.v1 = 0, !.lowPassFilter.v2 = 0, !.isActive = TRUE]

\* startNote, with sampleRate = getSampleRate() and the two parameter loads.
StartNote(v, midiNoteNumber, velocity, sampleRate, pulseWidthLoad, filterCutoffLoad) ==
    IF sampleRate <= 0
    THEN ClearCurrentNote(v)
    ELSE LET f  == MidiNoteInHertz(midiNoteNumber)
             v1 == [v EXCEPT !.currentLevel = velocity,
                             !.currentFrequency = f,
                             !.pulseOsc = PulseSetFrequency(
                                              PulseSetPulseWidth(PulseReset(v.pulseOsc), pulseWidthLoad),
                                              f, sampleRate),
                             !.currentSampleRate = sampleRate]
             v2 == UpdateFilterCoefficients(v1, filterCutoffLoad)
         IN  [v2 EXCEPT !.lowPassFilter.v1 = 0, !.lowPassFilter.v2 = 0, !.isActive = TRUE]

\* A stopNote that only clears the note and lets the voice ring on.
StopNoteWithTail(v) == ClearCurrentNote(v)

\* stopNote: allowTailOff is ignored, the voice stops at once.
StopNote(v) ==
    LET c == ClearCurrentNote(v)
    IN  [c EXCEPT !.pulseOsc = PulseReset(c.pulseOsc), !.isActive = FALSE, !.currentLevel = 0]

\* The per-sample loop of renderNextBlock: numSamples samples added to
\* outputBuffer from startSample on (every channel receives the same value).
RECURSIVE RenderLoop(_, _, _, _, _)
RenderLoop(v, gain, outputBuffer, startSample, numSamples) ==
    IF numSamples <= 0
    THEN [voice |-> v, buffer |-> outputBuffer]
    ELSE LET o        == PulseGetNextSample(v.pulseOsc)
             rawValue == Mul(Mul(o.sample, v.currentLevel), gain)
             f        == ProcessSingleSampleRaw(v.lowPassFilter, rawValue)
             nv       == [v EXCEPT !.pulseOsc = o.osc, !.lowPassFilter = f.filter]
         IN  RenderLoop(nv, gain,
                        [outputBuffer EXCEPT ![startSample] = outputBuffer[startSample] + f.out],
                        startSample + 1, numSamples - 1)

\* renderNextBlock, lines 94-97: the oscillator is refreshed with the
\* frequency and with the pulse width loaded at line 95.
RenderRefresh(v, sampleRate, pulseWidthLoad) ==
    [v EXCEPT !.pulseOsc = PulseSetPulseWidth(
                               PulseSetFrequency(v.pulseOsc, v.currentFrequency, sampleRate),
                               pulseWidthLoad),
              !.currentSampleRate = sampleRate]

\* renderNextBlock, line 99: whether smoothingAmount (the load of line 98)
\* has moved by more than 1.0e-3 since lastFilterCutoff.
CutoffMoved(v, smoothingAmount) == Abs(smoothingAmount - v.lastFilterCutoff) > 1

\* renderNextBlock, lines 94-103, with its three parameter loads:
\* pulseWidthLoad (line 95), cutoffLoad (line 98) and coeffLoad, the load
\* updateFilterCoefficients makes itself (line 124).
RenderSetup(v, sampleRate, pulseWidthLoad, cutoffLoad, coeffLoad) ==
    LET v1 == RenderRefresh(v, sampleRate, pulseWidthLoad)
    IN  IF CutoffMoved(v1, cutoffLoad)
        THEN UpdateFilterCoefficients([v1 EXCEPT !.lastFilterCutoff = cutoffLoad], coeffLoad)
        ELSE v1

\* renderNextBlock run without interruption: every load sees params.
RenderNextBlock(v, sampleRate, params, outputBuffer, startSample, numSamples) ==
    IF ~IsVoiceActive(v) \/ ~v.isActive
    THEN [voice |-> v, buffer |-> outputBuffer]
    ELSE IF sampleRate <= 0
    THEN [voice |-> v, buffer |-> outputBuffer]
    ELSE RenderLoop(RenderSetup(v, sampleRate, params.pulseWidth, params.filterCutoff, params.filterCutoff),
                    DecibelsToGain(params.gain), outputBuffer, startSample, numSamples)

(***************************************************************************)
(* juce::Synthesiser synth, as the processor uses it.  A synthesiser is    *)
(* a record [voices, lastNoteOnCounter, sustainPedalsDown]; cx is the      *)
(* context a voice reads while an event is handled:                        *)
(* [sampleRate (the voices' getSampleRate()), params].                     *)
(***************************************************************************)
\* constexpr int numVoices = 8
numVoices == 8

VoiceIds == 1..numVoices

\* A synthesiser on which setNoteStealingEnabled (false) was called.
noStealing == FALSE

\* juce::Synthesiser::shouldStealNotes: true unless setNoteStealingEnabled
\* (false) is called, and the constructor does not call it.
shouldStealNotes == TRUE

IsPlayingChannel(v, midiChannel) == v.currentPlayingMidiChannel = midiChannel

IsPlayingButReleased(v) ==
    IsVoiceActive(v) /\ ~(v.keyIsDown \/ v.sustainPedalDown \/ v.sostenutoPedalDown)

\* The member of ids whose voice was started first (ids is not empty).
Oldest(voices, ids) ==
    CHOOSE i \in ids :
        \A j \in ids : voices[i].noteOnTime < voices[j].noteOnTime
                       \/ (voices[i].noteOnTime = voices[j].noteOnTime /\ i <= j)

\* juce::Synthesiser::findVoiceToSteal: the oldest voice playing the note,
\* else the oldest released one, else the oldest without a key down, else the
\* oldest, sparing the lowest and the highest held note while others remain.
FindVoiceToSteal(voices, midiNoteNumber) ==
    LET held  == {i \in VoiceIds : ~IsPlayingButReleased(voices[i])}
        low   == IF held = {} THEN 0
                 ELSE CHOOSE i \in held :
                        \A j \in held : voices[i].currentlyPlayingNote < voices[j].currentlyPlayingNote
                                        \/ (voices[i].currentlyPlayingNote = voices[j].currentlyPlayingNote /\ i <= j)
        top0  == IF held = {} THEN 0
                 ELSE CHOOSE i \in held :
                        \A j \in held : voices[i].currentlyPlayingNote > voices[j].currentlyPlayingNote
                                        \/ (voices[i].currentlyPlayingNote = voices[j].currentlyPlayingNote /\ i <= j)
        top   == IF top0 = low THEN 0 ELSE top0
        same  == {i \in VoiceIds : voices[i].currentlyPlayingNote = midiNoteNumber}
        free  == VoiceIds \ {low, top}
        rel   == {i \in free : IsPlayingButReleased(voices[i])}
        up    == {i \in free : ~voices[i].keyIsDown}
    IN  IF same # {} THEN Oldest(voices, same)
        ELSE IF rel # {} THEN Oldest(voices, rel)
        ELSE IF up # {} THEN Oldest(voices, up)
        ELSE IF free # {} THEN Oldest(voices, free)
        ELSE IF top # 0 THEN top
        ELSE low

\* A findFreeVoice that searches the voices from the last to the first.
FindFreeVoiceFromTop(voices, midiNoteNumber, stealIfNoneAvailable) ==
    LET idle == {i \in VoiceIds : ~IsVoiceActive(voices[i])}
    IN  IF idle # {} THEN CHOOSE i \in idle : \A j \in idle : j <= i
        ELSE IF stealIfNoneAvailable THEN FindVoiceToSteal(voices, midiNoteNumber)
        ELSE 0

\* juce::Synthesiser::findFreeVoice: the first voice that is not active, else
\* a stolen one when stealing is enabled, else none (0).
FindFreeVoice(voices, midiNoteNumber, stealIfNoneAvailable) ==
    LET idle == {i \in VoiceIds : ~IsVoiceActive(voices[i])}
    IN  IF idle # {} THEN CHOOSE i \in idle : \A j \in idle : i <= j
        ELSE IF stealIfNoneAvailable THEN FindVoiceToSteal(voices, midiNoteNumber)
        ELSE 0

\* juce::Synthesiser::startVoice on voice i (0: no voice, nothing happens).
StartVoice(s, cx, i, midiChannel, midiNoteNumber, velocity) ==
    IF i = 0
    THEN s
    ELSE LET v0 == s.voices[i]
             v1 == IF IsVoiceActive(v0) THEN StopNote(v0) ELSE v0
             v2 == [v1 EXCEPT !.currentlyPlayingNote = midiNoteNumber,
                              !.currentPlayingMidiChannel = midiChannel,
                              !.noteOnTime = s.lastNoteOnCounter + 1,
                              !.keyIsDown = TRUE,
                              !.sostenutoPedalDown = FALSE,
                              !.sustainPedalDown = (midiChannel \in s.sustainPedalsDown)]
         IN  [s EXCEPT !.lastNoteOnCounter = s.lastNoteOnCounter + 1,
                       !.voices[i] = StartNote(v2, midiNoteNumber, velocity, cx.sampleRate,
                                               cx.params.pulseWidth, cx.params.filterCutoff)]

\* juce::Synthesiser::noteOn: voices still playing the note on the channel
\* are stopped first, then a free (or stolen) voice is started.
NoteOn(s, cx, midiChannel, midiNoteNumber, velocity) ==
    LET s1 == [s EXCEPT !.voices =
                  [i \in VoiceIds |->
                      IF s.voices[i].currentlyPlayingNote = midiNoteNumber
                         /\ IsPlayingChannel(s.voices[i], midiChannel)
                      THEN StopNote(s.voices[i]) ELSE s.voices[i]]]
    IN  StartVoice(s1, cx, FindFreeVoice(s1.voices, midiNoteNumber, shouldStealNotes),
                   midiChannel, midiNoteNumber, velocity)

\* A noteOff that matches the note number on every channel.
NoteOffAnyChannel(s, midiChannel, midiNoteNumber) ==
    [s EXCEPT !.voices =
        [i \in VoiceIds |->
            LET v == s.voices[i]
            IN  IF v.currentlyPlayingNote = midiNoteNumber
                THEN IF v.sustainPedalDown \/ v.sostenutoPedalDown
                     THEN [v EXCEPT !.keyIsDown = FALSE]
                     ELSE StopNote([v EXCEPT !.keyIsDown = FALSE])
                ELSE v]]

\* juce::Synthesiser::noteOff: every voice playing the note on the channel
\* has its key released and is stopped unless a pedal holds it.
NoteOff(s, midiChannel, midiNoteNumber) ==
    [s EXCEPT !.voices =
        [i \in VoiceIds |->
            LET v == s.voices[i]
            IN  IF v.currentlyPlayingNote = midiNoteNumber /\ IsPlayingChannel(v, midiChannel)
                THEN IF v.sustainPedalDown \/ v.sostenutoPedalDown
                     THEN [v EXCEPT !.keyIsDown = FALSE]
                     ELSE StopNote([v EXCEPT !.keyIsDown = FALSE])
                ELSE v]]

\* An allNotesOff that spares the voices the sustain pedal holds.
AllKeysUp(s, midiChannel) ==
    [s EXCEPT !.voices =
                 [i \in VoiceIds |->
                     IF (midiChannel <= 0 \/ IsPlayingChannel(s.voices[i], midiChannel))
                        /\ ~s.voices[i].sustainPedalDown
                     THEN StopNote(s.voices[i]) ELSE s.voices[i]]]

\* juce::Synthesiser::allNotesOff
AllNotesOff(s, midiChannel) ==
    [s EXCEPT !.voices =
                 [i \in VoiceIds |->
                     IF midiChannel <= 0 \/ IsPlayingChannel(s.voices[i], midiChannel)
                     THEN StopNote(s.voices[i]) ELSE s.voices[i]],
              !.sustainPedalsDown = {}]

\* juce::Synthesiser::handleSustainPedal
HandleSustainPedal(s, midiChannel, isDown) ==
    IF isDown
    THEN [s EXCEPT !.sustainPedalsDown = s.sustainPedalsDown \cup {midiChannel},
                   !.voices =
                      [i \in VoiceIds |->
                          LET v == s.voices[i]
                          IN  IF IsPlayingChannel(v, midiChannel) /\ v.keyIsDown
                              THEN [v EXCEPT !.sustainPedalDown = TRUE] ELSE v]]
    ELSE [s EXCEPT !.sustainPedalsDown = s.sustainPedalsDown \ {midiChannel},
                   !.voices =
                      [i \in VoiceIds |->
                          LET v == s.voices[i]
                          IN  IF IsPlayingChannel(v, midiChannel)
                              THEN IF v.keyIsDown \/ v.sostenutoPedalDown
                                   THEN [v EXCEPT !.sustainPedalDown = FALSE]
                                   ELSE StopNote([v EXCEPT !.sustainPedalDown = FALSE])
                              ELSE v]]

\* juce::Synthesiser::handleSostenutoPedal
HandleSostenutoPedal(s, midiChannel, isDown) ==
    [s EXCEPT !.voices =
        [i \in VoiceIds |->
            LET v == s.voices[i]
            IN  IF IsPlayingChannel(v, midiChannel)
                THEN IF isDown THEN [v EXCEPT !.sostenutoPedalDown = TRUE]
                     ELSE IF v.sostenutoPedalDown THEN StopNote(v)
                     ELSE v
                ELSE v]]

\* MIDI messages: [type, channel, number, value].  For a note message number
\* is the note and value the velocity (FP units); for a controller message
\* number is the controller and value its 7-bit value.
NoteOnMsg(ch, note, vel) == [type |-> "noteOn", channel |-> ch, number |-> note, value |-> vel]
NoteOffMsg(ch, note) == [type |-> "noteOff", channel |-> ch, number |-> note, value |-> 0]
ControllerMsg(ch, number, value) == [type |-> "controller", channel |-> ch, number |-> number, value |-> value]

\* juce::Synthesiser::handleMidiEvent (a note-on of velocity 0 is a note-off;
\* controllers 123 and 120 are all-notes-off and all-sound-off, 64 the
\* sustain pedal, 66 the sostenuto pedal).
HandleMidiEvent(s, cx, m) ==
    IF m.type = "noteOn" /\ m.value > 0
        THEN NoteOn(s, cx, m.channel, m.number, m.value)
    ELSE IF m.type = "noteOff" \/ m.type = "noteOn"
        THEN NoteOff(s, m.channel, m.number)
    ELSE IF m.type = "controller" /\ m.number \in {123, 120}
        THEN AllNotesOff(s, m.channel)
    ELSE IF m.type = "controller" /\ m.number = 64
        THEN HandleSustainPedal(s, m.channel, m.value >= 64)
    ELSE IF m.type = "controller" /\ m.number = 66
        THEN HandleSostenutoPedal(s, m.channel, m.value >= 64)
    ELSE s

RECURSIVE HandleMidiEvents(_, _, _)
HandleMidiEvents(s, cx, midi) ==
    IF midi = <<>> THEN s
    ELSE HandleMidiEvents(HandleMidiEvent(s, cx, Head(midi)), cx, Tail(midi))

\* juce::Synthesiser::renderVoices: the voices render one after the other
\* into the same buffer.  r is what the voices before i have made of it.
RECURSIVE RenderVoices(_, _, _, _)
RenderVoicesFrom(r, cx, numSamples, i) ==
    RenderVoices([voices |-> [r.voices EXCEPT ![i] = r.voice], buffer |-> r.buffer],
                 cx, numSamples, i + 1)

RenderVoices(r, cx, numSamples, i) ==
    IF i > numVoices
    THEN r
    ELSE RenderVoicesFrom(
             [voices |-> r.voices] @@
                 RenderNextBlock(r.voices[i], cx.sampleRate, cx.params, r.buffer, 1, numSamples),
             cx, numSamples, i)

\* juce::Synthesiser::renderNextBlock once the block's events are handled
\* (no voice is rendered for an empty block).
RenderAfterEvents(s, cx, buffer, numSamples) ==
    IF numSamples > 0
    THEN [synth |-> s] @@ RenderVoices([voices |-> s.voices, buffer |-> buffer], cx, numSamples, 1)
    ELSE [synth |-> s, voices |-> s.voices, buffer |-> buffer]

InstallVoices(r) == [synth |-> [r.synth EXCEPT !.voices = r.voices], buffer |-> r.buffer]

\* juce::Synthesiser::renderNextBlock for a block whose events all sit at
\* sample 0: the events are handled in order, then the block is rendered.
SynthRenderNextBlock(s, cx, buffer, midi, numSamples) ==
    InstallVoices(RenderAfterEvents(HandleMidiEvents(s, cx, midi), cx, buffer, numSamples))

(***************************************************************************)
(* Parameter state (juce::AudioProcessorValueTreeState parameters)         *)
(***************************************************************************)
ParameterIds == {"gain", "pulseWidth", "filterCutoff"}

\* createParameterLayout: the defaults and ranges of gain (dB), pulseWidth
\* and filterCutoff.
ParameterDefaults == [gain |-> -12, pulseWidth |-> 500, filterCutoff |-> 500]
ParameterMin == [gain |-> -60, pulseWidth |-> 50, filterCutoff |-> 0]
ParameterMax == [gain |-> 0, pulseWidth |-> 950, filterCutoff |-> 1000]

\* A serialised state is [decodable, tag, children]: whether
\* getXmlFromBinary can decode it, the root tag of the tree, and the child
\* entries [id, hasValue, value] in document order.
StateEntry(id, value) == [id |-> id, hasValue |-> TRUE, value |-> value]

\* getStateInformation: copyState, createXml, copyXmlToBinary.
GetStateResult(params) ==
    [decodable |-> TRUE, tag |-> "Parameters",
     children |-> << StateEntry("gain", params.gain),
                     StateEntry("pulseWidth", params.pulseWidth),
                     StateEntry("filterCutoff", params.filterCutoff) >>]

\* A replaceState that puts parameters without an entry back to their defaults.
RECURSIVE ReplaceStateResetsMissing(_, _)
ReplaceStateResetsMissing(params, children) ==
    IF children = <<>> THEN ParameterDefaults
    ELSE LET c == Head(children)
             rest == ReplaceStateResetsMissing(params, Tail(children))
         IN  IF c.id \in ParameterIds /\ \A k \in DOMAIN Tail(children) : Tail(children)[k].id # c.id
             THEN [rest EXCEPT ![c.id] =
                      jlimit(ParameterMin[c.id], ParameterMax[c.id],
                             IF c.hasValue THEN c.value ELSE ParameterDefaults[c.id])]
             ELSE rest

\* replaceState: each child that names a parameter sets it to the child's
\* value (to the default when the child carries no value), limited to the
\* parameter's range; other children are ignored and parameters without a
\* child keep their value.
RECURSIVE ReplaceState(_, _)
ReplaceState(params, children) ==
    IF children = <<>> THEN params
    ELSE LET c == Head(children)
             p == IF c.id \in ParameterIds
                  THEN [params EXCEPT ![c.id] =
                           jlimit(ParameterMin[c.id], ParameterMax[c.id],
                                  IF c.hasValue THEN c.value ELSE ParameterDefaults[c.id])]
                  ELSE params
         IN  ReplaceState(p, Tail(children))

\* setStateInformation: the tree is installed only when the data decodes
\* and its root tag is the parameter tree's.
SetStateResult(params, blob) ==
    IF blob.decodable
    THEN IF blob.tag = "Parameters" THEN ReplaceState(params, blob.children) ELSE params
    ELSE params

(***************************************************************************)
(* State                                                                   *)
(***************************************************************************)
VARIABLES
    parameters,       \* the three raw parameter values (APVTS atomics)
    lastSampleRate,   \* AudioPluginAudioProcessor::lastSampleRate
    synthSampleRate,  \* the synthesiser's and its voices' playback sample rate
    synth,            \* [voices, lastNoteOnCounter, sustainPedalsDown]
    eventsToAdd,      \* keyboardState: events of the on-screen keyboard not yet merged
    buffer,           \* the audio buffer of the last processBlock, at return
    midiMessages,     \* the MIDI buffer of the last processBlock, at return
    blocksProcessed,  \* number of blocks processed so far
    lastCall,         \* the last call made: [op, arg, before]
    stateBlob,        \* destData of the last getStateInformation
    pc,               \* where the audio thread stands in voice 1's renderNextBlock
    loads,            \* the parameter loads of the current (or last) renderNextBlock
    pulseOsc,         \* a PulseOscillator driven directly
    refOsc,           \* a fresh PulseOscillator given the calls made since pulseOsc's reset
    sinceReset,       \* pulseOsc was reset and has produced no sample since
    configured,       \* calls that took effect since the reset: [frequency, pulseWidth]
    preReset,         \* pulseOsc as it was when reset() was last called
    samplesTaken      \* number of getNextSample calls on pulseOsc

procVars == << lastSampleRate, synthSampleRate, synth, eventsToAdd, buffer,
               midiMessages, blocksProcessed >>
raceVars == << pc, loads >>
oscVars == << pulseOsc, refOsc, sinceReset, configured, preReset, samplesTaken >>

vars == << parameters, procVars, lastCall, stateBlob, raceVars, oscVars >>

\* Bounds of the exploration.
MaxBlocks == 2
MaxKeyboardEvents == 1
MaxNoteOns == 2
MaxSamples == 3

SampleRates == {0, 44100}
BufferValues == {5}
BlockSizes == {1}

\* The MIDI buffers a block may bring: none, one message, or the eight-note
\* chord 60..67 on channel 1.
MidiEvents ==
    {NoteOnMsg(2, 68, FP), NoteOffMsg(1, 68),
     ControllerMsg(1, 64, 127), ControllerMsg(1, 66, 127)}

Chord == [k \in 1..8 |-> NoteOnMsg(1, 59 + k, FP)]

MidiInputs == {<<>>} \cup {<<m>> : m \in MidiEvents} \cup {Chord}

\* The keys of the on-screen keyboard (channel 1, velocity 0.8) that are played.
KeyboardNotes == {68}

BufferInputs(numSamples) == [1..numSamples -> BufferValues]

Context == [sampleRate |-> synthSampleRate, params |-> parameters]

ActiveVoices(s) == {i \in VoiceIds : IsVoiceActive(s.voices[i])}

Call(op, arg, before) == [op |-> op, arg |-> arg, before |-> before]

Init ==
    /\ parameters = ParameterDefaults
    /\ lastSampleRate = 44100
    /\ synthSampleRate = 0
    /\ synth = [voices |-> [i \in VoiceIds |-> VoiceInit],
                lastNoteOnCounter |-> 0, sustainPedalsDown |-> {}]
    /\ eventsToAdd = <<>>
    /\ buffer = <<>>
    /\ midiMessages = <<>>
    /\ blocksProcessed = 0
    /\ lastCall = Call("construct", <<>>, {})
    /\ stateBlob = [decodable |-> FALSE, tag |-> "", children |-> <<>>]
    /\ pc = "idle"
    /\ loads = <<>>
    /\ pulseOsc = PulseInit
    /\ refOsc = PulseInit
    /\ sinceReset = FALSE
    /\ configured = [frequency |-> FALSE, pulseWidth |-> FALSE]
    /\ preReset = PulseInit
    /\ samplesTaken = 0

(***************************************************************************)
(* AudioPluginAudioProcessor                                               *)
(***************************************************************************)
\* juce::Synthesiser::setCurrentPlaybackSampleRate: a change of rate stops
\* every note before the voices take the new rate.
SetCurrentPlaybackSampleRate(s, oldRate, newRate) ==
    IF oldRate # newRate THEN AllNotesOff(s, 0) ELSE s

PrepareToPlay(sampleRate) ==
    /\ pc = "idle"
    /\ lastSampleRate' = sampleRate
    /\ synth' = SetCurrentPlaybackSampleRate(synth, synthSampleRate, sampleRate)
    /\ synthSampleRate' = sampleRate
    /\ lastCall' = Call("prepareToPlay", sampleRate, ActiveVoices(synth))
    /\ UNCHANGED << parameters, eventsToAdd, buffer, midiMessages, blocksProcessed,
                    stateBlob, raceVars, oscVars >>

ReleaseResources ==
    /\ synth' = AllNotesOff(synth, 0)
    /\ lastCall' = Call("releaseResources", <<>>, ActiveVoices(synth))
    /\ UNCHANGED << parameters, lastSampleRate, synthSampleRate, eventsToAdd,
                    buffer, midiMessages, blocksProcessed, stateBlob, raceVars, oscVars >>

\* juce::AudioBuffer::clear
Cleared(buf) == [i \in DOMAIN buf |-> 0]

\* keyboardState.processNextMidiBuffer (midiMessages, 0, numSamples, true):
\* the keyboard's events are added to the block's, after those at sample 0.
MergedMidi(midi, pending) == midi \o pending

\* A processBlock without the lastSampleRate <= 0 early return.
ProcessBlockUnguarded(inBuffer, midi) ==
    SynthRenderNextBlock(synth, Context, Cleared(inBuffer),
                         MergedMidi(midi, eventsToAdd), Len(inBuffer))
        @@ [midiMessages |-> <<>>, eventsToAdd |-> <<>>]

\* processBlock, as the state at return: [buffer, midiMessages, synth, eventsToAdd].
ProcessBlockResult(inBuffer, midi) ==
    IF lastSampleRate <= 0
    THEN [buffer |-> Cleared(inBuffer), midiMessages |-> <<>>,
          synth |-> synth, eventsToAdd |-> eventsToAdd]
    ELSE SynthRenderNextBlock(synth, Context, Cleared(inBuffer),
                              MergedMidi(midi, eventsToAdd), Len(inBuffer))
             @@ [midiMessages |-> <<>>, eventsToAdd |-> <<>>]

Returns(r) ==
    /\ buffer' = r.buffer
    /\ midiMessages' = r.midiMessages
    /\ synth' = r.synth
    /\ eventsToAdd' = r.eventsToAdd

ProcessBlock(inBuffer, midi) ==
    /\ blocksProcessed < MaxBlocks
    /\ Returns(ProcessBlockResult(inBuffer, midi))
    /\ blocksProcessed' = blocksProcessed + 1
    /\ lastCall' = Call("processBlock", midi, ActiveVoices(synth))
    /\ UNCHANGED << parameters, lastSampleRate, synthSampleRate, stateBlob, raceVars, oscVars >>

\* The editor's MidiKeyboardComponent presses a key (MidiKeyboardState::noteOn).
KeyboardNoteOn(note) ==
    /\ Len(eventsToAdd) < MaxKeyboardEvents
    /\ eventsToAdd' = Append(eventsToAdd, NoteOnMsg(1, note, 800))
    /\ UNCHANGED << parameters, lastSampleRate, synthSampleRate, synth, buffer,
                    midiMessages, blocksProcessed, lastCall, stateBlob, raceVars, oscVars >>

Next ==
    \/ \E sr \in SampleRates : PrepareToPlay(sr)
    \/ ReleaseResources
    \/ \E n \in BlockSizes : \E b \in BufferInputs(n) : \E midi \in MidiInputs :
           ProcessBlock(b, midi)
    \/ \E n \in KeyboardNotes : KeyboardNoteOn(n)

Spec == Init /\ [][Next]_vars

(***************************************************************************)
(* Properties of the voice pool                                            *)
(***************************************************************************)
\* The note-on and note-off messages the properties range over.
ProbeChannels == {1, 2}
ProbeNotes == {60, 68, 72}
NoteOnProbes == {NoteOnMsg(ch, n, FP) : ch \in ProbeChannels, n \in ProbeNotes}
NoteOffProbes == {NoteOffMsg(ch, n) : ch \in ProbeChannels, n \in ProbeNotes}

Dispatch(m) == HandleMidiEvent(synth, Context, m)

OscZero(v) ==
    \A core \in {v.pulseOsc.leadingEdge, v.pulseOsc.trailingEdge} :
        core.phase = 0 /\ core.osc = 0 /\ core.previousInput = 0

Stopped(v) == ~IsVoiceActive(v) /\ ~v.isActive /\ v.currentLevel = 0 /\ OscZero(v)

Playing(v, ch, n) ==
    IsVoiceActive(v) /\ v.currentlyPlayingNote = n /\ v.currentPlayingMidiChannel = ch

NotePlaying(s, n) == \E i \in VoiceIds : IsVoiceActive(s.voices[i]) /\ s.voices[i].currentlyPlayingNote = n

\* b has the activity, note, velocity and oscillator state of a.
Kept(b, a) ==
    /\ IsVoiceActive(b) = IsVoiceActive(a)
    /\ b.isActive = a.isActive
    /\ b.currentlyPlayingNote = a.currentlyPlayingNote
    /\ b.currentLevel = a.currentLevel
    /\ b.pulseOsc = a.pulseOsc

Lowest(ids) == CHOOSE i \in ids : \A j \in ids : i <= j

PoolFull == synthSampleRate > 0 /\ ActiveVoices(synth) = VoiceIds

\* C1 as the specification states it: with all 8 voices active, a note-on
\* for a note that no voice plays is dropped: the pool is left exactly as
\* it was.
C1_Dropped ==
    PoolFull =>
        \A m \in NoteOnProbes :
            ~NotePlaying(synth, m.number) =>
                \A i \in VoiceIds : Kept(Dispatch(m).voices[i], synth.voices[i])

\* C1: with all 8 voices active, a note-on for a note that no voice plays
\* steals one voice: that voice is restarted with the new note at the new
\* velocity and a zeroed oscillator, the seven others keep their state, and
\* the number of active voices stays 8.
C1_Steals ==
    PoolFull =>
        \A m \in NoteOnProbes :
            ~NotePlaying(synth, m.number) =>
                LET r == Dispatch(m)
                IN  /\ ActiveVoices(r) = VoiceIds
                    /\ \E k \in VoiceIds :
                           /\ Playing(r.voices[k], m.channel, m.number)
                           /\ r.voices[k].isActive
                           /\ r.voices[k].currentLevel = m.value
                           /\ OscZero(r.voices[k])
                           /\ r.voices[k].noteOnTime = synth.lastNoteOnCounter + 1
                           /\ \A j \in VoiceIds \ {k} : r.voices[j] = synth.voices[j]

\* A block brought the chord while the keyboard's note 68 was pending: the
\* ninth note-on took a voice from the chord.
C1_Witness ==
    /\ lastCall.op = "processBlock"
    /\ lastCall.arg = Chord
    /\ synth.lastNoteOnCounter = numVoices + 1
    /\ ActiveVoices(synth) = VoiceIds
    /\ \E k \in VoiceIds : Playing(synth.voices[k], 1, 68) /\ synth.voices[k].noteOnTime = numVoices + 1

\* C2 as the specification states it: a note-off for the note an active
\* voice plays leaves that voice inactive, with velocity 0 and a zeroed
\* oscillator.
C2_AlwaysStops ==
    \A m \in NoteOffProbes : \A i \in VoiceIds :
        Playing(synth.voices[i], m.channel, m.number) => Stopped(Dispatch(m).voices[i])

\* C2: a note-off for the note an active voice plays, when neither the
\* sustain nor the sostenuto pedal holds the voice, leaves it inactive with
\* velocity 0 and phase/osc/previousInput 0; a voice that is not playing is
\* in that stopped state and a render call on it changes neither the buffer
\* nor the voice; a block rendered with no voice playing is silent.
C2_StopsUnlessHeld ==
    /\ \A m \in NoteOffProbes : \A i \in VoiceIds :
           LET v == synth.voices[i]
           IN  Playing(v, m.channel, m.number) /\ ~v.sustainPedalDown /\ ~v.sostenutoPedalDown
                   => Stopped(Dispatch(m).voices[i])
    /\ \A i \in VoiceIds :
           LET v == synth.voices[i]
           IN  ~IsVoiceActive(v) =>
                   /\ Stopped(v)
                   /\ \A n \in BlockSizes : \A b \in BufferInputs(n) :
                          LET r == RenderNextBlock(v, synthSampleRate, parameters, b, 1, n)
                          IN  r.buffer = b /\ r.voice = v
    /\ lastCall.op = "processBlock" /\ ActiveVoices(synth) = {} => buffer = Cleared(buffer)

\* A block brought the note-off of note 68 to a voice that had rendered it:
\* the voice is stopped and the block is silent.
C2_Witness ==
    /\ lastCall.op = "processBlock"
    /\ lastCall.arg = << NoteOffMsg(1, 68) >>
    /\ lastSampleRate > 0
    /\ buffer = << 0 >>
    /\ \E i \in lastCall.before :
           /\ Stopped(synth.voices[i])
           /\ synth.voices[i].currentFrequency = MidiNoteInHertz(68)
           /\ synth.voices[i].lowPassFilter.v1 # 0

\* C3: while the stored sample rate is <= 0, processBlock returns an
\* all-zero buffer and an empty event list and changes no voice, whatever
\* the buffer and the MIDI events it is given.
C3_ZeroRate ==
    lastSampleRate <= 0 =>
        /\ \A n \in BlockSizes : \A b \in BufferInputs(n) : \A midi \in MidiInputs :
               LET r == ProcessBlockResult(b, midi)
               IN  /\ r.buffer = [i \in 1..n |-> 0]
                   /\ r.midiMessages = <<>>
                   /\ r.synth = synth
        /\ lastCall.op = "processBlock" =>
               /\ buffer = Cleared(buffer)
               /\ midiMessages = <<>>
               /\ ActiveVoices(synth) = {}

\* The chord arrived in a non-zero buffer while the stored rate was 0.
C3_Witness ==
    /\ lastCall.op = "processBlock"
    /\ lastCall.arg = Chord
    /\ lastSampleRate <= 0
    /\ buffer = << 0 >>
    /\ midiMessages = <<>>
    /\ ActiveVoices(synth) = {}

\* C4: after releaseResources (allNotesOff), and wherever allNotesOff
\* would be called, every one of the 8 voices is inactive with phase, osc
\* and previousInput of both cores 0.
C4_AllNotesOff ==
    /\ lastCall.op = "releaseResources" => \A i \in VoiceIds : Stopped(synth.voices[i])
    /\ \A i \in VoiceIds : Stopped(AllNotesOff(synth, 0).voices[i])

\* releaseResources was called with voices playing, one of which had
\* rendered a block.
C4_Witness ==
    /\ lastCall.op = "releaseResources"
    /\ \E i \in lastCall.before :
           /\ synth.voices[i].lowPassFilter.v1 # 0
           /\ synth.voices[i].sustainPedalDown
    /\ \A i \in VoiceIds : Stopped(synth.voices[i])

MatchingNote(n) == {i \in VoiceIds : IsVoiceActive(synth.voices[i]) /\ synth.voices[i].currentlyPlayingNote = n}

\* C5 as the specification states it: of several active voices playing the
\* note number of a note-off, none of them held by a pedal, the one with the
\* lowest index is stopped and the others stay as they were.
C5_LowestIndexOnly ==
    \A m \in NoteOffProbes :
        LET matching == MatchingNote(m.number)
            r == Dispatch(m)
        IN  Cardinality(matching) > 1
            /\ (\A i \in matching : ~synth.voices[i].sustainPedalDown /\ ~synth.voices[i].sostenutoPedalDown) =>
                /\ ~IsVoiceActive(r.voices[Lowest(matching)])
                /\ \A j \in matching \ {Lowest(matching)} : Kept(r.voices[j], synth.voices[j])

\* C5: at most one voice plays a given note on a given channel; a note-off
\* acts on the voice playing its note on its channel (stopping it, or only
\* releasing its key when a pedal holds it) and leaves every other voice,
\* a voice playing the same note on another channel included, unchanged.
C5_ChannelMatch ==
    /\ \A ch \in ProbeChannels : \A n \in 60..72 :
           Cardinality({i \in VoiceIds : Playing(synth.voices[i], ch, n)}) <= 1
    /\ \A m \in NoteOffProbes :
           LET r == Dispatch(m)
           IN  \A i \in VoiceIds :
                   LET v == synth.voices[i]
                   IN  IF Playing(v, m.channel, m.number)
                       THEN IF v.sustainPedalDown \/ v.sostenutoPedalDown
                            THEN r.voices[i] = [v EXCEPT !.keyIsDown = FALSE]
                            ELSE Stopped(r.voices[i])
                       ELSE r.voices[i] = v

\* Two voices played note 68, on channels 2 and 1; the note-off on channel
\* 1 stopped the second and left the first playing.
C5_Witness ==
    /\ lastCall.op = "processBlock"
    /\ lastCall.arg = << NoteOffMsg(1, 68) >>
    /\ \E i \in lastCall.before : \E j \in lastCall.before :
           /\ i < j
           /\ Playing(synth.voices[i], 2, 68)
           /\ Stopped(synth.voices[j])
           /\ synth.voices[j].currentFrequency = MidiNoteInHertz(68)

IdleVoices == VoiceIds \ ActiveVoices(synth)

\* C6 as the specification states it: with an inactive voice and a sample
\* rate > 0, a note-on starts the inactive voice of lowest index and leaves
\* the activity, note and oscillator state of every other voice unchanged.
C6_LowestIdle ==
    synthSampleRate > 0 /\ IdleVoices # {} =>
        \A m \in NoteOnProbes :
            LET r == Dispatch(m)
                k == Lowest(IdleVoices)
            IN  /\ Playing(r.voices[k], m.channel, m.number)
                /\ r.voices[k].isActive
                /\ \A j \in VoiceIds \ {k} : Kept(r.voices[j], synth.voices[j])

\* C6: with an inactive voice and a sample rate > 0, a note-on first stops
\* the voice that still plays the note on the channel, if any; it then
\* starts the voice of lowest index among those inactive at that point and
\* leaves every other voice unchanged.  For a note that is not playing on
\* the channel this is the lowest-index inactive voice, all others unchanged.
C6_LowestIdleAfterRetrigger ==
    synthSampleRate > 0 /\ IdleVoices # {} =>
        \A m \in NoteOnProbes :
            LET r == Dispatch(m)
                retriggered == {i \in VoiceIds : Playing(synth.voices[i], m.channel, m.number)}
                k == Lowest(IdleVoices \cup retriggered)
            IN  /\ Playing(r.voices[k], m.channel, m.number)
                /\ r.voices[k].isActive
                /\ r.voices[k].currentLevel = m.value
                /\ OscZero(r.voices[k])
                /\ \A j \in VoiceIds \ {k} :
                       IF j \in retriggered THEN Stopped(r.voices[j])
                       ELSE r.voices[j] = synth.voices[j]
                /\ retriggered = {} =>
                       /\ k = Lowest(IdleVoices)
                       /\ ActiveVoices(r) = ActiveVoices(synth) \cup {k}

\* Voice 1 was playing; the block's note-on started voice 2 and left the
\* voices 3..8 idle.
C6_Witness ==
    /\ lastCall.op = "processBlock"
    /\ lastCall.arg = << NoteOnMsg(2, 68, FP) >>
    /\ lastCall.before = {1}
    /\ ActiveVoices(synth) = {1, 2}
    /\ Playing(synth.voices[1], 1, 68)
    /\ Playing(synth.voices[2], 2, 68)
    /\ synth.voices[2].noteOnTime = synth.lastNoteOnCounter

\* The voice's own flag and the synthesiser's current-note status agree.
IndicatorsAgree(s) ==
    \A i \in VoiceIds : s.voices[i].isActive = IsVoiceActive(s.voices[i])

\* C14: after every completed call on the processor, and after every
\* note-on, note-off or allNotesOff dispatched from there at the sample rate
\* the synthesiser has (a rate <= 0, where startNote returns early,
\* included), each voice's isActive flag equals isVoiceActive(); a voice
\* renders exactly when the synthesiser counts it as playing.
C14_IndicatorsAgree ==
    /\ IndicatorsAgree(synth)
    /\ \A m \in NoteOnProbes \cup NoteOffProbes : IndicatorsAgree(Dispatch(m))
    /\ IndicatorsAgree(AllNotesOff(synth, 0))

\* A block with a note-on handled while the synthesiser's sample rate is 0:
\* startNote returned early, and the voice it was given is free on both
\* counts.
C14_Witness ==
    /\ lastCall.op = "processBlock"
    /\ lastCall.arg = << NoteOnMsg(2, 68, FP) >>
    /\ synthSampleRate = 0
    /\ synth.lastNoteOnCounter > 0
    /\ \A i \in VoiceIds : ~synth.voices[i].isActive /\ ~IsVoiceActive(synth.voices[i])

(***************************************************************************)
(* An AntiAliasedPulseOscillator driven call by call.  refOsc is a freshly *)
(* constructed oscillator that receives the setFrequency and setPulseWidth *)
(* calls made on pulseOsc since pulseOsc's last reset().                   *)
(* lastCall names the most recent call and, for getNextSample, holds the   *)
(* oscillator as it was before the call.                                   *)
(***************************************************************************)
OscFrequencies == {-100, 1500}
OscSampleRates == {0, 1000}
OscPulseWidths == {-500, 2000}

OscSetFrequency(newFrequency, newSampleRate) ==
    /\ pulseOsc' = PulseSetFrequency(pulseOsc, newFrequency, newSampleRate)
    /\ refOsc' = IF sinceReset THEN PulseSetFrequency(refOsc, newFrequency, newSampleRate) ELSE refOsc
    /\ configured' = IF sinceReset /\ newSampleRate > 0
                     THEN [configured EXCEPT !.frequency = TRUE] ELSE configured
    /\ lastCall' = Call("configure", <<>>, {})
    /\ UNCHANGED << parameters, procVars, stateBlob, raceVars,
                    sinceReset, preReset, samplesTaken >>

OscSetPulseWidth(newPulseWidth) ==
    /\ pulseOsc' = PulseSetPulseWidth(pulseOsc, newPulseWidth)
    /\ refOsc' = IF sinceReset THEN PulseSetPulseWidth(refOsc, newPulseWidth) ELSE refOsc
    /\ configured' = IF sinceReset THEN [configured EXCEPT !.pulseWidth = TRUE] ELSE configured
    /\ lastCall' = Call("configure", <<>>, {})
    /\ UNCHANGED << parameters, procVars, stateBlob, raceVars,
                    sinceReset, preReset, samplesTaken >>

OscReset ==
    /\ preReset' = pulseOsc
    /\ pulseOsc' = PulseReset(pulseOsc)
    /\ refOsc' = PulseInit
    /\ sinceReset' = TRUE
    /\ configured' = [frequency |-> FALSE, pulseWidth |-> FALSE]
    /\ lastCall' = Call("reset", <<>>, {})
    /\ UNCHANGED << parameters, procVars, stateBlob, raceVars, samplesTaken >>

OscGetNextSample ==
    /\ samplesTaken < MaxSamples
    /\ pulseOsc' = PulseGetNextSample(pulseOsc).osc
    /\ samplesTaken' = samplesTaken + 1
    /\ sinceReset' = FALSE
    /\ lastCall' = Call("getNextSample", <<>>, pulseOsc)
    /\ UNCHANGED << parameters, procVars, stateBlob, raceVars,
                    refOsc, configured, preReset >>

OscNext ==
    \/ \E f \in OscFrequencies : \E sr \in OscSampleRates : OscSetFrequency(f, sr)
    \/ \E pw \in OscPulseWidths : OscSetPulseWidth(pw)
    \/ OscReset
    \/ OscGetNextSample

OscSpec == Init /\ [][OscNext]_vars

Cores(o) == << o.leadingEdge, o.trailingEdge >>

\* C8 as the specification states it: after reset() and any setFrequency /
\* setPulseWidth calls without a getNextSample, the oscillator's full state
\* is that of a fresh oscillator given the same calls, and so is its next
\* sample.
C8_ResetForgetsHistory ==
    sinceReset =>
        /\ pulseOsc = refOsc
        /\ PulseGetNextSample(pulseOsc).sample = PulseGetNextSample(refOsc).sample

\* C8: after reset() and setFrequency / setPulseWidth calls without a
\* getNextSample, phase, osc and previousInput of both cores are 0; w and
\* beta are the fresh oscillator's once a setFrequency with sr > 0 was among
\* the calls and are those from before reset() otherwise; pulseWidth is the
\* fresh oscillator's once a setPulseWidth was among the calls and is the
\* one from before reset() otherwise; with both kinds of call made, the
\* full state and the next sample are the fresh oscillator's.
C8_ResetKeepsTuning ==
    sinceReset =>
        /\ \A k \in 1..2 :
               LET c == Cores(pulseOsc)[k]
                   fresh == Cores(refOsc)[k]
                   old == Cores(preReset)[k]
               IN  /\ c.phase = 0 /\ c.osc = 0 /\ c.previousInput = 0
                   /\ IF configured.frequency
                      THEN c.w = fresh.w /\ c.beta = fresh.beta
                      ELSE c.w = old.w /\ c.beta = old.beta
        /\ pulseOsc.pulseWidth = IF configured.pulseWidth THEN refOsc.pulseWidth
                                 ELSE preReset.pulseWidth
        /\ configured.frequency /\ configured.pulseWidth =>
               /\ pulseOsc = refOsc
               /\ PulseGetNextSample(pulseOsc).sample = PulseGetNextSample(refOsc).sample

\* An oscillator that had run at another frequency and pulse width was
\* reset and given both kinds of call.
C8_Witness ==
    /\ sinceReset
    /\ configured.frequency /\ configured.pulseWidth
    /\ preReset.leadingEdge.phase # 0
    /\ preReset.trailingEdge.osc # 0
    /\ preReset.leadingEdge.w # pulseOsc.leadingEdge.w
    /\ preReset.pulseWidth # pulseOsc.pulseWidth
    /\ pulseOsc = refOsc

\* Stored trailing phases to compare a sample against.
ProbePhases == {0, 123, 500, 999}

\* C11: after every getNextSample of the pulse oscillator, whatever
\* setPulseWidth / setFrequency calls came between samples, the trailing
\* core's phase is (leading phase after its advance + pulseWidth + w) mod 1
\* with the clamped pulseWidth and the w current at that sample, and the
\* call's result (sample and oscillator) is the same for every phase the
\* trailing core could have had stored.
C11_TrailingLocked ==
    lastCall.op = "getNextSample" =>
        LET before == lastCall.before
        IN  /\ pulseOsc.trailingEdge.phase
                   = (pulseOsc.leadingEdge.phase + before.pulseWidth + before.leadingEdge.w) % FP
            /\ \A p \in ProbePhases :
                   PulseGetNextSample([before EXCEPT !.trailingEdge.phase = p])
                       = PulseGetNextSample(before)

\* A sample taken after the pulse width or the frequency changed between
\* samples of a running oscillator: the stored trailing phase was no longer
\* at the offset, and advancing it by w would have given another phase.
C11_Witness ==
    /\ lastCall.op = "getNextSample"
    /\ samplesTaken >= 2
    /\ lastCall.before.trailingEdge.osc # 0
    /\ lastCall.before.leadingEdge.w > 0
    /\ lastCall.before.trailingEdge.phase
           # (lastCall.before.leadingEdge.phase + lastCall.before.pulseWidth
                + lastCall.before.leadingEdge.w) % FP
    /\ pulseOsc.trailingEdge.phase
           # (lastCall.before.trailingEdge.phase + lastCall.before.trailingEdge.w) % FP
    /\ pulseOsc.trailingEdge.phase
           = (pulseOsc.leadingEdge.phase + pulseOsc.pulseWidth + pulseOsc.leadingEdge.w) % FP

\* C12: after any sequence of setFrequency (negative frequencies,
\* frequencies above the sample rate and sample rates <= 0 included),
\* setPulseWidth (values outside [0.01, 0.99] included), reset and
\* getNextSample calls, the phase of the leading and of the trailing core
\* lies in [0, 1).
C12_PhaseInUnitInterval ==
    \A k \in 1..2 : Cores(pulseOsc)[k].phase >= 0 /\ Cores(pulseOsc)[k].phase < FP

\* A sample at the clamped frequency and the clamped pulse width in which
\* the leading phase wrapped and the shifted phase was wrapped down.
C12_Witness ==
    /\ lastCall.op = "getNextSample"
    /\ lastCall.before.leadingEdge.w = 490
    /\ lastCall.before.pulseWidth = 990
    /\ lastCall.before.leadingEdge.phase + lastCall.before.leadingEdge.w >= FP
    /\ pulseOsc.leadingEdge.phase + lastCall.before.pulseWidth >= FP
    /\ C12_PhaseInUnitInterval

\* C13: in every reachable state of the pulse oscillator (after any
\* setFrequency, setPulseWidth, reset and getNextSample calls, setFrequency
\* with a sample rate <= 0 included), the leading and the trailing core have
\* the same w and the same beta.
C13_CoresTunedAlike ==
    /\ pulseOsc.leadingEdge.w = pulseOsc.trailingEdge.w
    /\ pulseOsc.leadingEdge.beta = pulseOsc.trailingEdge.beta

\* A tuned oscillator that was retuned after a reset and then sampled: the
\* cores share w and beta and differ in phase, osc and previousInput.
C13_Witness ==
    /\ lastCall.op = "getNextSample"
    /\ pulseOsc.leadingEdge.w > 0
    /\ pulseOsc.trailingEdge.w = pulseOsc.leadingEdge.w
    /\ preReset.leadingEdge.beta > 0
    /\ preReset.leadingEdge.beta # pulseOsc.leadingEdge.beta
    /\ pulseOsc.trailingEdge.beta = pulseOsc.leadingEdge.beta
    /\ pulseOsc.leadingEdge.phase # pulseOsc.trailingEdge.phase
    /\ pulseOsc.leadingEdge.osc # pulseOsc.trailingEdge.osc
    /\ pulseOsc.leadingEdge.previousInput # pulseOsc.trailingEdge.previousInput

(***************************************************************************)
(* The control thread: parameter writes, state save and state load.        *)
(***************************************************************************)
\* The writes the host or the editor's sliders make.
ParameterWrites == {<< "gain", -6 >>, << "pulseWidth", 250 >>,
                    << "filterCutoff", 500 >>, << "filterCutoff", 700 >>}

\* Blobs handed to setStateInformation besides the one last saved.
UndecodableBlob == [decodable |-> FALSE, tag |-> "", children |-> <<>>]
ForeignEntry == StateEntry("volume", 3)
WrongTagBlob ==
    [decodable |-> TRUE, tag |-> "Settings",
     children |-> << StateEntry("gain", 0), StateEntry("pulseWidth", 300),
                     StateEntry("filterCutoff", 900) >>]
EmptyBlob == [decodable |-> TRUE, tag |-> "Parameters", children |-> <<>>]
ForeignBlob == [decodable |-> TRUE, tag |-> "Parameters", children |-> << ForeignEntry >>]
PartialBlob ==
    [decodable |-> TRUE, tag |-> "Parameters",
     children |-> << StateEntry("gain", 0), ForeignEntry >>]
ValuelessBlob ==
    [decodable |-> TRUE, tag |-> "Parameters",
     children |-> << [id |-> "pulseWidth", hasValue |-> FALSE, value |-> 0] >>]
OutOfRangeBlob ==
    [decodable |-> TRUE, tag |-> "Parameters",
     children |-> << StateEntry("gain", 6), StateEntry("pulseWidth", 300),
                     StateEntry("filterCutoff", 900) >>]

Blobs == {UndecodableBlob, WrongTagBlob, EmptyBlob, ForeignBlob, PartialBlob,
          ValuelessBlob, OutOfRangeBlob}

SetParameter(id, value) ==
    /\ parameters' = [parameters EXCEPT ![id] = value]
    /\ lastCall' = Call("setParameter", << id, value >>, parameters)
    /\ UNCHANGED << procVars, stateBlob, raceVars, oscVars >>

GetStateInformation ==
    /\ stateBlob' = GetStateResult(parameters)
    /\ lastCall' = Call("getStateInformation", <<>>, parameters)
    /\ UNCHANGED << parameters, procVars, raceVars, oscVars >>

SetStateInformation(blob) ==
    /\ parameters' = SetStateResult(parameters, blob)
    /\ lastCall' = Call("setStateInformation", blob, parameters)
    /\ UNCHANGED << procVars, stateBlob, raceVars, oscVars >>

StateNext ==
    \/ \E w \in ParameterWrites : SetParameter(w[1], w[2])
    \/ GetStateInformation
    \/ \E blob \in Blobs \cup {stateBlob} : SetStateInformation(blob)

StateSpec == Init /\ [][StateNext]_vars

HasEntry(blob, id) == \E k \in DOMAIN blob.children : blob.children[k].id = id

\* The blob is not decodable, has another root tag, or has the root tag
\* but misses a parameter's entry or carries a foreign entry.
Malformed(blob) ==
    \/ ~blob.decodable
    \/ blob.tag # "Parameters"
    \/ \E id \in ParameterIds : ~HasEntry(blob, id)
    \/ \E k \in DOMAIN blob.children : blob.children[k].id \notin ParameterIds

\* C9 as the specification states it: setStateInformation with a malformed
\* blob leaves gain, pulseWidth and filterCutoff as they were.
C9_MalformedIgnored ==
    lastCall.op = "setStateInformation" /\ Malformed(lastCall.arg) =>
        parameters = lastCall.before

\* C9: setStateInformation with a blob that does not decode or has another
\* root tag leaves gain, pulseWidth and filterCutoff as they were; with the
\* parameter tree's root tag, a parameter that has no entry in the blob
\* keeps its value and foreign entries have no effect, while a parameter
\* that has an entry takes the entry's value limited to its range (its
\* default when the entry carries no value).
C9_MissingEntriesKept ==
    lastCall.op = "setStateInformation" =>
        LET blob == lastCall.arg
        IN  IF ~blob.decodable \/ blob.tag # "Parameters"
            THEN parameters = lastCall.before
            ELSE \A id \in ParameterIds :
                     IF HasEntry(blob, id)
                     THEN \E k \in DOMAIN blob.children :
                              /\ blob.children[k].id = id
                              /\ parameters[id] =
                                     jlimit(ParameterMin[id], ParameterMax[id],
                                            IF blob.children[k].hasValue
                                            THEN blob.children[k].value
                                            ELSE ParameterDefaults[id])
                     ELSE parameters[id] = lastCall.before[id]

\* A blob with the right root tag, an entry for gain and a foreign entry
\* was loaded over non-default values: gain changed, the others stayed.
C9_Witness ==
    /\ lastCall.op = "setStateInformation"
    /\ lastCall.arg = PartialBlob
    /\ lastCall.before.pulseWidth # ParameterDefaults.pulseWidth
    /\ lastCall.before.filterCutoff # ParameterDefaults.filterCutoff
    /\ parameters.gain # lastCall.before.gain
    /\ parameters.pulseWidth = lastCall.before.pulseWidth
    /\ parameters.filterCutoff = lastCall.before.filterCutoff

(***************************************************************************)
(* One voice on the audio thread, its renderNextBlock taken load by load,  *)
(* while the control thread writes parameters.  Only note 60 on channel 1  *)
(* is played, so the voice is voices[1].  loads lists the parameter loads  *)
(* of the block as << id, value >>, in the order they are made.            *)
(***************************************************************************)
VoiceUnderTest == synth.voices[1]

SetVoice(v) == [synth EXCEPT !.voices[1] = v]

\* A note-on of the block's MIDI buffer is handled (startNote).
DispatchNoteOn ==
    /\ pc = "idle"
    /\ lastSampleRate > 0
    /\ synth.lastNoteOnCounter < MaxNoteOns
    /\ synth' = HandleMidiEvent(synth, Context, NoteOnMsg(1, 60, FP))
    /\ lastCall' = Call("noteOn", 60, ActiveVoices(synth))
    /\ UNCHANGED << parameters, lastSampleRate, synthSampleRate, eventsToAdd, buffer,
                    midiMessages, blocksProcessed, stateBlob, raceVars, oscVars >>

\* A note-off of the block's MIDI buffer is handled (stopNote).
DispatchNoteOff ==
    /\ pc = "idle"
    /\ lastSampleRate > 0
    /\ IsVoiceActive(VoiceUnderTest)
    /\ synth' = HandleMidiEvent(synth, Context, NoteOffMsg(1, 60))
    /\ lastCall' = Call("noteOff", 60, ActiveVoices(synth))
    /\ UNCHANGED << parameters, lastSampleRate, synthSampleRate, eventsToAdd, buffer,
                    midiMessages, blocksProcessed, stateBlob, raceVars, oscVars >>

\* renderNextBlock lines 87-95: past the early returns, the oscillator is
\* refreshed with the pulse width loaded at line 95.
RenderBegin ==
    /\ pc = "idle"
    /\ blocksProcessed < MaxBlocks
    /\ lastSampleRate > 0
    /\ IsVoiceActive(VoiceUnderTest) /\ VoiceUnderTest.isActive
    /\ synthSampleRate > 0
    /\ synth' = SetVoice(RenderRefresh(VoiceUnderTest, synthSampleRate, parameters.pulseWidth))
    /\ loads' = << << "pulseWidth", parameters.pulseWidth >> >>
    /\ pc' = "loadCutoff"
    /\ UNCHANGED << parameters, lastSampleRate, synthSampleRate, eventsToAdd, buffer,
                    midiMessages, blocksProcessed, lastCall, stateBlob, oscVars >>

\* Lines 98-101: the cutoff is loaded and, when it has moved, recorded.
RenderLoadCutoff ==
    /\ pc = "loadCutoff"
    /\ LET smoothingAmount == parameters.filterCutoff
       IN  /\ loads' = Append(loads, << "filterCutoff", smoothingAmount >>)
           /\ IF CutoffMoved(VoiceUnderTest, smoothingAmount)
              THEN /\ synth' = SetVoice([VoiceUnderTest EXCEPT !.lastFilterCutoff = smoothingAmount])
                   /\ pc' = "updateCoefficients"
              ELSE /\ synth' = synth
                   /\ pc' = "loadGain"
    /\ UNCHANGED << parameters, lastSampleRate, synthSampleRate, eventsToAdd, buffer,
                    midiMessages, blocksProcessed, lastCall, stateBlob, oscVars >>

\* Line 102, updateFilterCoefficients: the cutoff is loaded again (line 124).
RenderUpdateCoefficients ==
    /\ pc = "updateCoefficients"
    /\ synth' = SetVoice(UpdateFilterCoefficients(VoiceUnderTest, parameters.filterCutoff))
    /\ loads' = Append(loads, << "filterCutoff", parameters.filterCutoff >>)
    /\ pc' = "loadGain"
    /\ UNCHANGED << parameters, lastSampleRate, synthSampleRate, eventsToAdd, buffer,
                    midiMessages, blocksProcessed, lastCall, stateBlob, oscVars >>

\* Lines 105-114: the gain is loaded and the block's one sample rendered.
RenderFinish ==
    /\ pc = "loadGain"
    /\ LET r == RenderLoop(VoiceUnderTest, DecibelsToGain(parameters.gain), << 0 >>, 1, 1)
       IN  /\ synth' = SetVoice(r.voice)
           /\ buffer' = r.buffer
    /\ loads' = Append(loads, << "gain", parameters.gain >>)
    /\ pc' = "idle"
    /\ blocksProcessed' = blocksProcessed + 1
    /\ lastCall' = Call("renderNextBlock", <<>>, ActiveVoices(synth))
    /\ UNCHANGED << parameters, lastSampleRate, synthSampleRate, eventsToAdd,
                    midiMessages, stateBlob, oscVars >>

VoiceNext ==
    \/ \E sr \in SampleRates : PrepareToPlay(sr)
    \/ DispatchNoteOn
    \/ DispatchNoteOff
    \/ RenderBegin
    \/ RenderLoadCutoff
    \/ RenderUpdateCoefficients
    \/ RenderFinish
    \/ \E w \in ParameterWrites : SetParameter(w[1], w[2])

VoiceSpec == Init /\ [][VoiceNext]_vars

\* Every two loads of one parameter in the block gave the same value.
SingleValued == 
    \A j \in DOMAIN loads : \A k \in DOMAIN loads :
        loads[j][1] = loads[k][1] => loads[j][2] = loads[k][2]

Recomputed == Len(loads) >= 3 /\ loads[3][1] = "filterCutoff"

\* C7 as the specification states it: in one renderNextBlock the voice acts
\* on a single value of each parameter, and when it recomputes the
\* coefficients the cutoff it recorded is the cutoff the coefficients were
\* computed from.
C7_SingleObservation ==
    /\ SingleValued
    /\ Recomputed =>
           VoiceUnderTest.lastFilterCutoff = VoiceUnderTest.lowPassFilter.coefficients.control

\* The same voice with the parameter writes made between the calls only:
\* no write falls inside a renderNextBlock.
WriteBetweenCalls == pc = "idle" /\ \E w \in ParameterWrites : SetParameter(w[1], w[2])

SeqNext ==
    \/ \E sr \in SampleRates : PrepareToPlay(sr)
    \/ DispatchNoteOn
    \/ DispatchNoteOff
    \/ RenderBegin
    \/ RenderLoadCutoff
    \/ RenderUpdateCoefficients
    \/ RenderFinish
    \/ WriteBetweenCalls

SeqSpec == Init /\ [][SeqNext]_vars

\* C10 as the specification states it: after a renderNextBlock on an active
\* voice, the installed coefficients were computed from a control value
\* within 1e-3 of the cutoff read in that block.
C10_CoefficientsFollowControl ==
    lastCall.op = "renderNextBlock" /\ pc = "idle" =>
        Abs(VoiceUnderTest.lowPassFilter.coefficients.control - loads[2][2]) <= 1

=============================================================================
